---- MODULE Spec2Model ----
(***************************************************************************)
(* A model of the kernel adapter base class of the GPU kernel runner       *)
(* (src/src/kernel_adapter.hpp): argument marshalling, launch              *)
(* configuration resolution and the adapter factory.                       *)
(*                                                                         *)
(* Four specifications share  the module, one per subsystem; each leaves   *)
(* the other subsystems' variables at their initial values:                *)
(*   MarshalSpec   marshal_kernel_arguments and the push_back helpers      *)
(*   LaunchSpec    make_launch_config / deduce_launch_config               *)
(*   RegistrySpec  register_in_factory and the factory mixin               *)
(*   NamesSpec     buffer_names by direction                               *)
(***************************************************************************)
EXTENDS Naturals, Sequences, FiniteSets

VARIABLES
    \* ---- execution_context_t, as read by the marshalling helpers
    ecosystem,        \* context.ecosystem
    dev_inputs,       \* keys of context.buffers.device_side.inputs
    dev_outputs,      \* keys of context.buffers.device_side.outputs
    scalar_args,      \* context.scalar_input_arguments.typed: name -> stored type
    \* ---- one call of marshal_kernel_arguments
    argument_ptrs,    \* the marshalled_arguments_type accumulator / return value
    marshal_state,    \* "inner", "returned", or the exception that ended the call
    calls,            \* history: the push_back calls that succeeded, in order
    last_push,        \* history: the latest push_back call and its outcome
    \* ---- one call of make_launch_config
    forced,           \* parsed_inspecific_options.forced_launch_config_components
    adapter_deduce,   \* what this adapter's deduce_launch_config does
    lc_state,         \* "unresolved", "resolved", "failed", "launched"
    lc_result,        \* the configuration make_launch_config returned
    lc_error,         \* the exception make_launch_config left with
    deduce_calls,     \* call-count probe on deduce_launch_config
    \* ---- the adapter factory
    factory,          \* key -> registered adapter class (NoClass: none)
    reg_state,        \* "startup", "running", "fatal"
    last_reg,         \* history: the latest registration and its outcome
    produced,         \* the adapter class last produced (NoClass: none)
    produce_key,      \* the key last looked up
    produce_error,    \* the condition the last produce ended with
    registered_keys,  \* history: the keys of all registration calls so far
    \* ---- an adapter's declared buffers and the buffer_names queries on it
    buffer_details,   \* the adapter's buffer_details(): a vector of declarations
    names_call        \* history: the latest buffer_names call and its result

marshal_vars == <<ecosystem, dev_inputs, dev_outputs, scalar_args,
                  argument_ptrs, marshal_state, calls, last_push>>
launch_vars == <<forced, adapter_deduce, lc_state, lc_result, lc_error, deduce_calls>>
registry_vars == <<factory, reg_state, last_reg, produced, produce_key, produce_error,
                   registered_keys>>
names_vars == <<buffer_details, names_call>>
vars == <<marshal_vars, launch_vars, registry_vars, names_vars>>

(***************************************************************************)
(* Bounds                                                                  *)
(***************************************************************************)
MaxArgs == 3      \* the most arguments one inner hook pushes
MaxExtent == 2    \* launch configuration components range over 1..MaxExtent
MaxBuffers == 3   \* the most buffers an adapter declares

(***************************************************************************)
(* Ecosystems, buffers, scalars                                            *)
(***************************************************************************)
Ecosystems == {"cuda", "opencl"}
Directions == {"in", "out", "inout"}
BufferNames == {"a", "b"}
ScalarNames == {"n"}
ScalarTypes == {"int", "double"}

SizeofClBuffer == 8

sizeof(T) == IF T = "int" THEN 4 ELSE 8

nullptr == [kind |-> "null", name |-> ""]
\* the address of the handle stored under `name` in map `which`
AddrOf(which, name) == [kind |-> which, name |-> name]

context == [ecosystem |-> ecosystem, inputs |-> dev_inputs,
            outputs |-> dev_outputs, scalars |-> scalar_args]

EmptyArguments == [pointers |-> <<>>, sizes |-> <<>>]

NoPush == [op |-> "none", dir |-> "", name |-> "", type |-> "", outcome |-> ""]

(***************************************************************************)
(* Argument marshalling                                                    *)
(***************************************************************************)
\* The maps a context may hold: name -> stored dynamic type, for some names.
ScalarMaps == UNION {[D -> ScalarTypes] : D \in SUBSET ScalarNames}

\* push_back_buffer with only out (not inout) looked up in the output map.
push_back_buffer_inout_as_input(args, ctx, dir, name) ==
    LET which == IF dir = "out" THEN "outputs" ELSE "inputs"
        buffer_map == IF dir = "out" THEN ctx.outputs ELSE ctx.inputs
    IN  IF name \notin buffer_map
        THEN [err |-> "buffer_not_found", args |-> args]
        ELSE IF ctx.ecosystem = "cuda"
        THEN [err |-> "none",
              args |-> [args EXCEPT !.pointers = Append(@, AddrOf(which, name))]]
        ELSE [err |-> "none",
              args |-> [pointers |-> Append(args.pointers, AddrOf(which, name)),
                        sizes |-> Append(args.sizes, SizeofClBuffer)]]

\* push_back_buffer pushing the size whatever the ecosystem.
push_back_buffer_always_sized(args, ctx, dir, name) ==
    LET which == IF dir = "in" THEN "inputs" ELSE "outputs"
        buffer_map == IF dir = "in" THEN ctx.inputs ELSE ctx.outputs
    IN  IF name \notin buffer_map
        THEN [err |-> "buffer_not_found", args |-> args]
        ELSE [err |-> "none",
              args |-> [pointers |-> Append(args.pointers, AddrOf(which, name)),
                        sizes |-> Append(args.sizes, SizeofClBuffer)]]

\* kernel_adapters::push_back_buffer: in selects the input map, out and inout
\* the output map; map::at throws before anything is pushed.
push_back_buffer(args, ctx, dir, name) ==
    LET which == IF dir = "in" THEN "inputs" ELSE "outputs"
        buffer_map == IF dir = "in" THEN ctx.inputs ELSE ctx.outputs
    IN  IF name \notin buffer_map
        THEN [err |-> "buffer_not_found", args |-> args]
        ELSE IF ctx.ecosystem = "cuda"
        THEN [err |-> "none",
              args |-> [args EXCEPT !.pointers = Append(@, AddrOf(which, name))]]
        ELSE [err |-> "none",
              args |-> [pointers |-> Append(args.pointers, AddrOf(which, name)),
                        sizes |-> Append(args.sizes, SizeofClBuffer)]]

\* push_back_scalar with the size pushed under cuda instead of opencl.
push_back_scalar_size_under_cuda(args, ctx, Scalar, name) ==
    IF name \notin DOMAIN ctx.scalars
    THEN [err |-> "scalar_not_found", args |-> args]
    ELSE IF ctx.scalars[name] # Scalar
    THEN [err |-> "type_mismatch", args |-> args]
    ELSE IF ctx.ecosystem = "cuda"
    THEN [err |-> "none",
          args |-> [pointers |-> Append(args.pointers, AddrOf("scalars", name)),
                    sizes |-> Append(args.sizes, sizeof(Scalar))]]
    ELSE [err |-> "none",
          args |-> [args EXCEPT !.pointers = Append(@, AddrOf("scalars", name))]]

\* push_back_scalar with an unchecked cast of the stored value.
push_back_scalar_unchecked_cast(args, ctx, Scalar, name) ==
    IF name \notin DOMAIN ctx.scalars
    THEN [err |-> "scalar_not_found", args |-> args]
    ELSE IF ctx.ecosystem = "opencl"
    THEN [err |-> "none",
          args |-> [pointers |-> Append(args.pointers, AddrOf("scalars", name)),
                    sizes |-> Append(args.sizes, sizeof(Scalar))]]
    ELSE [err |-> "none",
          args |-> [args EXCEPT !.pointers = Append(@, AddrOf("scalars", name))]]

\* kernel_adapters::push_back_scalar<Scalar>: map::at throws when the name is
\* absent, any_cast<const Scalar&> throws when the stored type is not Scalar;
\* both happen before the push.
push_back_scalar(args, ctx, Scalar, name) ==
    IF name \notin DOMAIN ctx.scalars
    THEN [err |-> "scalar_not_found", args |-> args]
    ELSE IF ctx.scalars[name] # Scalar
    THEN [err |-> "type_mismatch", args |-> args]
    ELSE IF ctx.ecosystem = "opencl"
    THEN [err |-> "none",
          args |-> [pointers |-> Append(args.pointers, AddrOf("scalars", name)),
                    sizes |-> Append(args.sizes, sizeof(Scalar))]]
    ELSE [err |-> "none",
          args |-> [args EXCEPT !.pointers = Append(@, AddrOf("scalars", name))]]

\* marshal_kernel_arguments with the ecosystem test the wrong way round.
marshal_kernel_arguments_wrong_ecosystem(inner, ctx) ==
    IF ctx.ecosystem = "opencl"
    THEN [inner EXCEPT !.pointers = Append(@, nullptr)]
    ELSE inner

\* kernel_adapter::marshal_kernel_arguments, from the return of the inner hook
\* (inner: the accumulator as marshal_kernel_arguments_inner left it).
marshal_kernel_arguments(inner, ctx) ==
    IF ctx.ecosystem = "cuda"
    THEN [inner EXCEPT !.pointers = Append(@, nullptr)]
    ELSE inner

MarshalInit ==
    /\ ecosystem \in Ecosystems
    /\ dev_inputs \in SUBSET BufferNames
    /\ dev_outputs \in SUBSET BufferNames
    /\ scalar_args \in ScalarMaps
    /\ argument_ptrs = EmptyArguments
    /\ marshal_state = "inner"
    /\ calls = <<>>
    /\ last_push = NoPush

\* One push_back_buffer call made by the adapter's marshal_kernel_arguments_inner.
PushBackBuffer(dir, name) ==
    /\ marshal_state = "inner"
    /\ Len(calls) < MaxArgs
    /\ LET r == push_back_buffer(argument_ptrs, context, dir, name)
           call == [op |-> "buffer", dir |-> dir, name |-> name, type |-> "",
                    outcome |-> r.err]
       IN  /\ argument_ptrs' = r.args
           /\ marshal_state' = IF r.err = "none" THEN "inner" ELSE r.err
           /\ calls' = IF r.err = "none" THEN Append(calls, call) ELSE calls
           /\ last_push' = call
    /\ UNCHANGED <<ecosystem, dev_inputs, dev_outputs, scalar_args>>
    /\ UNCHANGED <<launch_vars, registry_vars, names_vars>>

\* One push_back_scalar<Scalar> call made by the inner hook.
PushBackScalar(Scalar, name) ==
    /\ marshal_state = "inner"
    /\ Len(calls) < MaxArgs
    /\ LET r == push_back_scalar(argument_ptrs, context, Scalar, name)
           call == [op |-> "scalar", dir |-> "", name |-> name, type |-> Scalar,
                    outcome |-> r.err]
       IN  /\ argument_ptrs' = r.args
           /\ marshal_state' = IF r.err = "none" THEN "inner" ELSE r.err
           /\ calls' = IF r.err = "none" THEN Append(calls, call) ELSE calls
           /\ last_push' = call
    /\ UNCHANGED <<ecosystem, dev_inputs, dev_outputs, scalar_args>>
    /\ UNCHANGED <<launch_vars, registry_vars, names_vars>>

\* The inner hook returns and marshal_kernel_arguments finishes.
MarshalReturn ==
    /\ marshal_state = "inner"
    /\ argument_ptrs' = marshal_kernel_arguments(argument_ptrs, context)
    /\ marshal_state' = "returned"
    /\ UNCHANGED <<ecosystem, dev_inputs, dev_outputs, scalar_args, calls, last_push>>
    /\ UNCHANGED <<launch_vars, registry_vars, names_vars>>

MarshalNext ==
    \/ \E dir \in Directions, name \in BufferNames : PushBackBuffer(dir, name)
    \/ \E Scalar \in ScalarTypes, name \in ScalarNames : PushBackScalar(Scalar, name)
    \/ MarshalReturn

(***************************************************************************)
(* Launch configuration resolution                                         *)
(***************************************************************************)
\* optional_launch_config_components: each component independently optional.
\* A configuration is a map from the components it holds to their values.
Components == {"grid", "block", "shmem"}
LaunchConfigs == UNION {[D -> 1..MaxExtent] : D \in SUBSET Components}
NoConfig == [k \in {} |-> 1]

\* optional_launch_config_components::is_sufficient: every component present.
is_sufficient(cfg) == DOMAIN cfg = Components

\* What an adapter's deduce_launch_config does with this context: the base
\* class's hook ("default"), an override that throws ("fails"), or an override
\* that returns cfg ("returns").
AdapterDeductions ==
    [kind : {"default", "fails"}, cfg : {NoConfig}]
        \cup [kind : {"returns"}, cfg : LaunchConfigs]

\* kernel_adapter::deduce_launch_config (virtual): the base class throws.
deduce_launch_config(adapter, ctx_forced) ==
    IF adapter.kind = "returns"
    THEN [err |-> "none", cfg |-> adapter.cfg]
    ELSE [err |-> "unable_to_deduce", cfg |-> NoConfig]

\* make_launch_config that asks the adapter first and uses the forced
\* components only when deduction fails.
make_launch_config_deduce_first(adapter, ctx_forced) ==
    LET d == deduce_launch_config(adapter, ctx_forced)
    IN  IF d.err = "none"
        THEN [err |-> "none", cfg |-> d.cfg, calls |-> 1]
        ELSE IF is_sufficient(ctx_forced)
        THEN [err |-> "none", cfg |-> ctx_forced, calls |-> 1]
        ELSE [err |-> d.err, cfg |-> d.cfg, calls |-> 1]

\* make_launch_config that swallows a failed deduction and returns the forced
\* components as they are.
make_launch_config_fallback(adapter, ctx_forced) ==
    IF is_sufficient(ctx_forced)
    THEN [err |-> "none", cfg |-> ctx_forced, calls |-> 0]
    ELSE LET d == deduce_launch_config(adapter, ctx_forced)
         IN  IF d.err = "none"
             THEN [err |-> "none", cfg |-> d.cfg, calls |-> 1]
             ELSE [err |-> "none", cfg |-> ctx_forced, calls |-> 1]

\* kernel_adapter::make_launch_config; calls counts the calls of the hook.
make_launch_config(adapter, ctx_forced) ==
    IF is_sufficient(ctx_forced)
    THEN [err |-> "none", cfg |-> ctx_forced, calls |-> 0]
    ELSE LET d == deduce_launch_config(adapter, ctx_forced)
         IN  [err |-> d.err, cfg |-> d.cfg, calls |-> 1]

LaunchInit ==
    /\ forced \in LaunchConfigs
    /\ adapter_deduce \in AdapterDeductions
    /\ lc_state = "unresolved"
    /\ lc_result = NoConfig
    /\ lc_error = "none"
    /\ deduce_calls = 0

\* The driver asks the adapter for the launch configuration.
MakeLaunchConfig ==
    /\ lc_state = "unresolved"
    /\ LET r == make_launch_config(adapter_deduce, forced)
       IN  /\ lc_state' = IF r.err = "none" THEN "resolved" ELSE "failed"
           /\ lc_result' = r.cfg
           /\ lc_error' = r.err
           /\ deduce_calls' = deduce_calls + r.calls
    /\ UNCHANGED <<forced, adapter_deduce>>
    /\ UNCHANGED <<marshal_vars, registry_vars, names_vars>>

\* The driver launches the kernel with the configuration it was given.
LaunchKernel ==
    /\ lc_state = "resolved"
    /\ lc_state' = "launched"
    /\ UNCHANGED <<forced, adapter_deduce, lc_result, lc_error, deduce_calls>>
    /\ UNCHANGED <<marshal_vars, registry_vars, names_vars>>

LaunchNext == MakeLaunchConfig \/ LaunchKernel

(***************************************************************************)
(* The adapter factory                                                     *)
(***************************************************************************)
\* Adapter classes: the static key_ member, what the virtual key() returns and
\* the kernel function name. U1/U2 and U3/U4 share a key_; key() is each
\* adapter's own code, and U6's does not return its key_.
AdapterClasses ==
    { [id |-> "U1", key_ |-> "k1", key |-> "k1", kernel_function_name |-> "f1"],
      [id |-> "U2", key_ |-> "k1", key |-> "k1", kernel_function_name |-> "f2"],
      [id |-> "U3", key_ |-> "k2", key |-> "k2", kernel_function_name |-> "f1"],
      [id |-> "U4", key_ |-> "k2", key |-> "k2", kernel_function_name |-> "f3"],
      [id |-> "U5", key_ |-> "k3", key |-> "k3", kernel_function_name |-> "f3"],
      [id |-> "U6", key_ |-> "k5", key |-> "k6", kernel_function_name |-> "f2"] }
NoClass == [id |-> "none", key_ |-> "", key |-> "", kernel_function_name |-> ""]
LookupKeys == {"k1", "k2", "k3", "k4", "k5", "k6", "f1", "f2", "f3"}

\* kernel_adapter::key() of an instance of class U (pure virtual in the base).
key(U) == U.key

EmptyFactory == [k \in {} |-> NoClass]

can_produce_subclass(f, k) == k \in DOMAIN f

\* factory_producible::register_in_factory<U>(key, flag): a repeat registration
\* fails and changes nothing unless the caller opted into overwriting.
mixin_register_in_factory(f, k, U, overwrite) ==
    IF can_produce_subclass(f, k) /\ ~overwrite
    THEN [err |-> "already_registered", factory |-> f]
    ELSE [err |-> "none",
          factory |-> [x \in DOMAIN f \cup {k} |-> IF x = k THEN U ELSE f[x]]]

\* produce_subclass that default-constructs an adapter for an unknown key, as
\* a map's operator[] would.
produce_subclass_default_constructed(f, k) ==
    IF can_produce_subclass(f, k)
    THEN [err |-> "none", instance |-> f[k]]
    ELSE [err |-> "none", instance |-> NoClass]

\* factory_producible::produce_subclass(key)
produce_subclass(f, k) ==
    IF can_produce_subclass(f, k)
    THEN [err |-> "none", instance |-> f[k]]
    ELSE [err |-> "kernel_not_found", instance |-> NoClass]

\* register_in_factory registering U under its kernel function name.
register_in_factory_by_function_name(f, U) ==
    [key |-> U.kernel_function_name, overwrite |-> FALSE,
     result |-> mixin_register_in_factory(f, U.kernel_function_name, U, FALSE)]

\* register_in_factory passing true for the flag.
register_in_factory_flag_set(f, U) ==
    [key |-> U.key_, overwrite |-> TRUE,
     result |-> mixin_register_in_factory(f, U.key_, U, TRUE)]

\* kernel_adapters::register_in_factory<U>(): registers U under U::key_ and
\* passes false for the flag.
register_in_factory(f, U) ==
    [key |-> U.key_, overwrite |-> FALSE,
     result |-> mixin_register_in_factory(f, U.key_, U, FALSE)]

NoRegistration ==
    [cls |-> NoClass, key |-> "", overwrite |-> FALSE, helper |-> FALSE,
     outcome |-> "", before |-> EmptyFactory]

RegistryInit ==
    /\ factory = EmptyFactory
    /\ reg_state = "startup"
    /\ last_reg = NoRegistration
    /\ produced = NoClass
    /\ produce_key = ""
    /\ produce_error = "none"
    /\ registered_keys = {}

\* A static block of adapter U runs kernel_adapters::register_in_factory<U>().
RegisterAdapter(U) ==
    /\ reg_state = "startup"
    /\ LET r == register_in_factory(factory, U)
       IN  /\ factory' = r.result.factory
           /\ reg_state' = IF r.result.err = "none" THEN "startup" ELSE "fatal"
           /\ last_reg' = [cls |-> U, key |-> r.key, overwrite |-> r.overwrite,
                           helper |-> TRUE, outcome |-> r.result.err,
                           before |-> factory]
           /\ registered_keys' = registered_keys \cup {r.key}
    /\ UNCHANGED <<produced, produce_key, produce_error>>
    /\ UNCHANGED <<marshal_vars, launch_vars, names_vars>>

\* A caller uses kernel_adapter::register_in_factory<U>(U::key_, flag) itself.
RegisterExplicitly(U, overwrite) ==
    /\ reg_state = "startup"
    /\ LET r == mixin_register_in_factory(factory, U.key_, U, overwrite)
       IN  /\ factory' = r.factory
           /\ reg_state' = IF r.err = "none" THEN "startup" ELSE "fatal"
           /\ last_reg' = [cls |-> U, key |-> U.key_, overwrite |-> overwrite,
                           helper |-> FALSE, outcome |-> r.err, before |-> factory]
           /\ registered_keys' = registered_keys \cup {U.key_}
    /\ UNCHANGED <<produced, produce_key, produce_error>>
    /\ UNCHANGED <<marshal_vars, launch_vars, names_vars>>

\* Static initialisation ends; the driver starts looking adapters up.
StartupDone ==
    /\ reg_state = "startup"
    /\ reg_state' = "running"
    /\ UNCHANGED <<factory, last_reg, produced, produce_key, produce_error,
                   registered_keys>>
    /\ UNCHANGED <<marshal_vars, launch_vars, names_vars>>

\* The driver calls kernel_adapter::produce_subclass(k).
Produce(k) ==
    /\ reg_state = "running"
    /\ LET r == produce_subclass(factory, k)
       IN  /\ produced' = r.instance
           /\ produce_error' = r.err
           /\ produce_key' = k
           /\ reg_state' = IF r.err = "none" THEN "produced" ELSE "config_error"
    /\ UNCHANGED <<factory, last_reg, registered_keys>>
    /\ UNCHANGED <<marshal_vars, launch_vars, names_vars>>

RegistryNext ==
    \/ \E U \in AdapterClasses : RegisterAdapter(U)
    \/ \E U \in AdapterClasses, overwrite \in BOOLEAN : RegisterExplicitly(U, overwrite)
    \/ StartupDone
    \/ \E k \in LookupKeys : Produce(k)

(***************************************************************************)
(* Buffer names by direction                                               *)
(***************************************************************************)
DeclaredNames == {"a", "b", "c"}

\* single_buffer_details, without the description.
BufferDetails == [name : DeclaredNames, direction : Directions]

\* buffer_details_type: the vectors of at most MaxBuffers declarations.
BufferDetailVectors == UNION {[1..n -> BufferDetails] : n \in 0..MaxBuffers}

\* parameter_name_set is kept as the sequence of its elements; inserting an
\* element the set already holds changes nothing.
SetInsert(names, x) ==
    IF \E i \in 1..Len(names) : names[i] = x THEN names ELSE Append(names, x)

RECURSIVE InsertAll(_, _)
InsertAll(names, xs) ==
    IF xs = <<>> THEN names
    ELSE InsertAll(SetInsert(names, Head(xs)), Tail(xs))

\* util::filter(bds, [&direction](sbd) { return sbd.direction == direction; })
RECURSIVE filter(_, _)
filter(bds, direction) ==
    IF bds = <<>> THEN <<>>
    ELSE IF Head(bds).direction = direction
    THEN <<Head(bds)>> \o filter(Tail(bds), direction)
    ELSE filter(Tail(bds), direction)

\* kernel_adapter::buffer_names_from_details: std::transform to the names,
\* inserted into a parameter_name_set.
buffer_names_from_details(bds) ==
    InsertAll(<<>>, [i \in 1..Len(bds) |-> bds[i].name])

\* kernel_adapter::buffer_names(direction)
buffer_names(bds, direction) ==
    buffer_names_from_details(filter(bds, direction))

\* util::union_ of two parameter_name_sets
union_(set_1, set_2) == InsertAll(InsertAll(<<>>, set_1), set_2)

\* The free function with dir_1 used for both operands.
buffer_names_2_first_direction_twice(bds, dir_1, dir_2) ==
    union_(buffer_names(bds, dir_1), buffer_names(bds, dir_1))

\* The free function buffer_names(adapter, dir_1, dir_2)
buffer_names_2(bds, dir_1, dir_2) ==
    union_(buffer_names(bds, dir_1), buffer_names(bds, dir_2))

NoNamesCall == [kind |-> "none", dir_1 |-> "", dir_2 |-> "", result |-> <<>>]

NamesInit ==
    /\ buffer_details \in BufferDetailVectors
    /\ names_call = NoNamesCall

NamesIdle ==
    /\ buffer_details = <<>>
    /\ names_call = NoNamesCall

\* A caller asks the adapter for the names of one direction.
BufferNames1(direction) ==
    /\ names_call' = [kind |-> "one", dir_1 |-> direction, dir_2 |-> direction,
                      result |-> buffer_names(buffer_details, direction)]
    /\ UNCHANGED buffer_details
    /\ UNCHANGED <<marshal_vars, launch_vars, registry_vars>>

\* A caller asks for the names of a pair of directions.
BufferNames2(dir_1, dir_2) ==
    /\ names_call' = [kind |-> "pair", dir_1 |-> dir_1, dir_2 |-> dir_2,
                      result |-> buffer_names_2(buffer_details, dir_1, dir_2)]
    /\ UNCHANGED buffer_details
    /\ UNCHANGED <<marshal_vars, launch_vars, registry_vars>>

NamesNext ==
    \/ \E direction \in Directions : BufferNames1(direction)
    \/ \E dir_1 \in Directions, dir_2 \in Directions : BufferNames2(dir_1, dir_2)

(***************************************************************************)
(* Specifications                                                          *)
(***************************************************************************)
\* A subsystem that is not running stays as constructed.
MarshalIdle ==
    /\ ecosystem = "cuda"
    /\ dev_inputs = {}
    /\ dev_outputs = {}
    /\ scalar_args = [x \in {} |-> "int"]
    /\ argument_ptrs = EmptyArguments
    /\ marshal_state = "idle"
    /\ calls = <<>>
    /\ last_push = NoPush

LaunchIdle ==
    /\ forced = NoConfig
    /\ adapter_deduce = [kind |-> "default", cfg |-> NoConfig]
    /\ lc_state = "idle"
    /\ lc_result = NoConfig
    /\ lc_error = "none"
    /\ deduce_calls = 0

RegistryIdle ==
    /\ factory = EmptyFactory
    /\ reg_state = "idle"
    /\ last_reg = NoRegistration
    /\ produced = NoClass
    /\ produce_key = ""
    /\ produce_error = "none"
    /\ registered_keys = {}

MarshalSpecInit == MarshalInit /\ LaunchIdle /\ RegistryIdle /\ NamesIdle
MarshalSpec == MarshalSpecInit /\ [][MarshalNext]_vars

LaunchSpecInit == LaunchInit /\ MarshalIdle /\ RegistryIdle /\ NamesIdle
LaunchSpec == LaunchSpecInit /\ [][LaunchNext]_vars

RegistrySpecInit == RegistryInit /\ MarshalIdle /\ LaunchIdle /\ NamesIdle
RegistrySpec == RegistrySpecInit /\ [][RegistryNext]_vars

NamesSpecInit == NamesInit /\ MarshalIdle /\ LaunchIdle /\ RegistryIdle
NamesSpec == NamesSpecInit /\ [][NamesNext]_vars

(***************************************************************************)
(* Properties of argument marshalling (MarshalSpec)                        *)
(***************************************************************************)
Pointers == argument_ptrs.pointers
Sizes == argument_ptrs.sizes

\* C1: under cuda, whatever number n of arguments the inner hook pushed,
\* marshal_kernel_arguments returns n + 1 pointers, the last one is the null
\* sentinel and none of the n before it is: the sentinel is added exactly once.
C1_CudaNullTerminatedOnce ==
    (marshal_state = "returned" /\ ecosystem = "cuda") =>
        /\ Len(Pointers) = Len(calls) + 1
        /\ Pointers[Len(calls) + 1] = nullptr
        /\ \A i \in 1..Len(calls) : Pointers[i] # nullptr

C1_Witness ==
    /\ marshal_state = "returned"
    /\ ecosystem = "cuda"
    /\ Len(calls) = 2
    /\ Pointers[3] = nullptr

\* C2: under opencl, for every sequence of push_back_buffer and
\* push_back_scalar calls, the returned pointer and size sequences have the
\* same length (one slot per call) and no pointer slot is the null terminator.
C2_OpenclEqualLengthsNoTerminator ==
    (marshal_state = "returned" /\ ecosystem = "opencl") =>
        /\ Len(Pointers) = Len(Sizes)
        /\ Len(Pointers) = Len(calls)
        /\ \A i \in 1..Len(Pointers) : Pointers[i] # nullptr

C2_Witness ==
    /\ marshal_state = "returned"
    /\ ecosystem = "opencl"
    /\ \E i, j \in 1..Len(calls) : calls[i].op = "buffer" /\ calls[j].op = "scalar"
    /\ Len(Sizes) = Len(calls)

\* C7: push_back_buffer looks the name up in the input map for direction in
\* and in the output map for out and inout; it fails with buffer-not-found
\* exactly when the name is absent from that map (whatever the other map
\* holds), pushing nothing; otherwise it appends the address of that map's
\* handle.
C7_BufferLookedUpInSelectedMap ==
    last_push.op = "buffer" =>
        LET selected == IF last_push.dir = "in" THEN dev_inputs ELSE dev_outputs
            which == IF last_push.dir = "in" THEN "inputs" ELSE "outputs"
        IN  /\ (last_push.outcome = "buffer_not_found") <=> (last_push.name \notin selected)
            /\ (last_push.outcome = "none") <=> (last_push.name \in selected)
            /\ last_push.outcome = "buffer_not_found" =>
                   /\ marshal_state = "buffer_not_found"
                   /\ Len(Pointers) = Len(calls)
            /\ last_push.outcome = "none" =>
                   Pointers[Len(calls)] = AddrOf(which, last_push.name)

C7_Witness ==
    /\ last_push.op = "buffer"
    /\ last_push.dir \in {"out", "inout"}
    /\ last_push.name = "b"
    /\ dev_inputs = {"a", "b"}
    /\ dev_outputs = {"a"}
    /\ marshal_state = "buffer_not_found"

\* C8: push_back_scalar<T>(name) fails with not-found when the name is absent
\* from the scalar map, with type-mismatch when the value stored under the name
\* has a type other than T, and succeeds only when the name is present with
\* stored type T; a failed call pushes nothing.
C8_ScalarTypeCheckedLookup ==
    last_push.op = "scalar" =>
        LET present == last_push.name \in DOMAIN scalar_args
        IN  /\ (last_push.outcome = "scalar_not_found") <=> ~present
            /\ (last_push.outcome = "type_mismatch") <=>
                   (present /\ scalar_args[last_push.name] # last_push.type)
            /\ (last_push.outcome = "none") <=>
                   (present /\ scalar_args[last_push.name] = last_push.type)
            /\ last_push.outcome # "none" =>
                   /\ marshal_state = last_push.outcome
                   /\ Len(Pointers) = Len(calls)

C8_Witness ==
    /\ last_push.op = "scalar"
    /\ last_push.type = "int"
    /\ "n" \in DOMAIN scalar_args
    /\ scalar_args["n"] = "double"
    /\ marshal_state = "type_mismatch"

\* The pointer and the size a successful call stands for: the address of the
\* handle in the map the direction selects and sizeof(cl::Buffer) for a
\* buffer, the address of the stored value and sizeof(T) for a scalar.
PointerOfCall(call) ==
    IF call.op = "buffer"
    THEN AddrOf(IF call.dir = "in" THEN "inputs" ELSE "outputs", call.name)
    ELSE AddrOf("scalars", call.name)

SizeOfCall(call) ==
    IF call.op = "buffer" THEN SizeofClBuffer ELSE sizeof(call.type)

\* C13: after any sequence of successful push_back_buffer / push_back_scalar
\* calls on one accumulator, the i-th pointer slot is the argument of the i-th
\* call (one slot per call, appended at the end, earlier slots unchanged);
\* under opencl the i-th size is the size belonging to the i-th pointer, under
\* cuda the size sequence stays empty.
C13_SlotsFollowCallOrder ==
    marshal_state # "idle" =>
        /\ Len(Pointers) = Len(calls) +
               (IF marshal_state = "returned" /\ ecosystem = "cuda" THEN 1 ELSE 0)
        /\ \A i \in 1..Len(calls) : Pointers[i] = PointerOfCall(calls[i])
        /\ ecosystem = "opencl" =>
               /\ Len(Sizes) = Len(calls)
               /\ \A i \in 1..Len(calls) : Sizes[i] = SizeOfCall(calls[i])
        /\ ecosystem = "cuda" => Sizes = <<>>

C13_Witness ==
    /\ ecosystem = "opencl"
    /\ marshal_state = "inner"
    /\ Len(calls) = 3
    /\ calls[1].op = "scalar" /\ calls[1].type = "int"
    /\ calls[2].op = "buffer" /\ calls[2].dir = "inout" /\ calls[2].name = "b"
    /\ calls[3].op = "buffer" /\ calls[3].dir = "in" /\ calls[3].name = "a"
    /\ Pointers = <<AddrOf("scalars", "n"), AddrOf("outputs", "b"), AddrOf("inputs", "a")>>
    /\ Sizes = <<sizeof("int"), SizeofClBuffer, SizeofClBuffer>>

(***************************************************************************)
(* Properties of launch configuration resolution (LaunchSpec)              *)
(***************************************************************************)
Resolving == lc_state \in {"resolved", "failed", "launched"}

\* C3: whenever the forced components are sufficient, make_launch_config
\* returns exactly the forced configuration and deduce_launch_config is not
\* called, also when the adapter would deduce another sufficient configuration.
C3_SufficientForcedSkipsDeduction ==
    (Resolving /\ is_sufficient(forced)) =>
        /\ lc_state # "failed"
        /\ lc_error = "none"
        /\ lc_result = forced
        /\ deduce_calls = 0

C3_Witness ==
    /\ lc_state = "resolved"
    /\ is_sufficient(forced)
    /\ adapter_deduce.kind = "returns"
    /\ is_sufficient(adapter_deduce.cfg)
    /\ adapter_deduce.cfg # forced
    /\ lc_result = forced

\* C4: (the claim as stated) with an insufficient forced configuration and an adapter
\* whose deduction supplies every component, the resolved configuration holds
\* the forced value of each forced component and the deduced value of the
\* others.
C4_ForcedComponentsTakePrecedence ==
    ( /\ lc_state \in {"resolved", "launched"}
      /\ ~is_sufficient(forced)
      /\ adapter_deduce.kind = "returns"
      /\ is_sufficient(adapter_deduce.cfg) ) =>
        /\ is_sufficient(lc_result)
        /\ \A k \in Components :
               lc_result[k] = IF k \in DOMAIN forced THEN forced[k]
                              ELSE adapter_deduce.cfg[k]

\* C5: with an insufficient forced configuration and an adapter whose
\* deduce_launch_config fails (the base class's hook included),
\* make_launch_config fails with unable-to-deduce and returns no
\* configuration; the forced components are not used instead.
C5_FailedDeductionIsFatal ==
    ( /\ Resolving
      /\ ~is_sufficient(forced)
      /\ adapter_deduce.kind \in {"default", "fails"} ) =>
        /\ lc_state = "failed"
        /\ lc_error = "unable_to_deduce"
        /\ lc_result = NoConfig
        /\ deduce_calls = 1

C5_Witness ==
    /\ lc_state = "failed"
    /\ adapter_deduce.kind = "default"
    /\ DOMAIN forced = {"block"}
    /\ lc_error = "unable_to_deduce"

\* C6: (the claim as stated) the resolver has no partial-success outcome: a
\* configuration that make_launch_config returned, and one a launch is
\* attempted with, is sufficient.
C6_NoPartialSuccess ==
    lc_state \in {"resolved", "launched"} => is_sufficient(lc_result)

(***************************************************************************)
(* Properties of the adapter factory (RegistrySpec)                        *)
(***************************************************************************)
\* An adapter whose virtual key() returns its static key_ member.
KeyAgrees(U) == key(U) = U.key_

\* C9: for every registered key, produce(key) succeeds and returns an instance
\* of the adapter class registered under it, and that instance's key() is the
\* lookup key whenever the adapter's key() agrees with its static key_ member
\* (under which it was registered).
C9_ProducedAdapterHasLookupKey ==
    /\ \A k \in DOMAIN factory :
           LET r == produce_subclass(factory, k)
           IN  /\ r.err = "none"
               /\ r.instance \in AdapterClasses
               /\ KeyAgrees(r.instance) => key(r.instance) = k
    /\ (reg_state = "produced" /\ KeyAgrees(produced)) => key(produced) = produce_key

C9_Witness ==
    /\ reg_state = "produced"
    /\ produced.id = "U2"
    /\ KeyAgrees(produced)
    /\ produce_key = "k1"
    /\ Cardinality(DOMAIN factory) = 3

\* C10: a registration under an already registered key, made without opting
\* into overwrite, fails, is fatal at startup and leaves the factory as it
\* was; the self-registration helper never opts in, so a second adapter with
\* the same key is reported, neither ignored nor put in place of the first.
\* A registration that opts in, or whose key is new, succeeds and binds the
\* key to the adapter.
C10_RepeatRegistrationFails ==
    last_reg.cls # NoClass =>
        LET repeat == can_produce_subclass(last_reg.before, last_reg.key)
        IN  /\ last_reg.helper => ~last_reg.overwrite
            /\ (repeat /\ ~last_reg.overwrite) =>
                   /\ last_reg.outcome = "already_registered"
                   /\ reg_state = "fatal"
                   /\ factory = last_reg.before
            /\ (~repeat \/ last_reg.overwrite) =>
                   /\ last_reg.outcome = "none"
                   /\ reg_state # "fatal"
                   /\ factory[last_reg.key] = last_reg.cls

C10_Witness ==
    /\ last_reg.helper
    /\ last_reg.cls.id = "U2"
    /\ can_produce_subclass(last_reg.before, "k1")
    /\ last_reg.before["k1"].id = "U1"
    /\ reg_state = "fatal"
    /\ factory["k1"].id = "U1"

\* C11: produce(key) for a key no registration call was ever made with fails
\* with kernel-not-found, returns no adapter instance, and can_produce(key) is
\* false; after any sequence of registrations, produce(key) succeeds exactly
\* for the keys can_produce(key) is true of, and then returns the adapter
\* registered under the key.
C11_ProduceSucceedsIffCanProduce ==
    /\ \A k \in LookupKeys \ registered_keys : ~can_produce_subclass(factory, k)
    /\ reg_state \in {"produced", "config_error"} =>
           /\ (reg_state = "produced") <=> can_produce_subclass(factory, produce_key)
           /\ reg_state = "produced" =>
                  /\ produce_error = "none"
                  /\ produced = factory[produce_key]
                  /\ produced \in AdapterClasses
           /\ reg_state = "config_error" =>
                  /\ produce_error = "kernel_not_found"
                  /\ produced = NoClass
           /\ produce_key \notin registered_keys =>
                  /\ reg_state = "config_error"
                  /\ produce_error = "kernel_not_found"
                  /\ produced = NoClass

C11_Witness ==
    /\ reg_state = "config_error"
    /\ produce_key = "k4"
    /\ produce_key \notin registered_keys
    /\ registered_keys = {"k1", "k2"}
    /\ produce_error = "kernel_not_found"
    /\ produced = NoClass

(***************************************************************************)
(* Properties of buffer_names (NamesSpec)                                  *)
(***************************************************************************)
\* The declared names whose direction is one of ds.
DeclaredWithDirection(ds) ==
    {buffer_details[i].name :
        i \in {j \in 1..Len(buffer_details) : buffer_details[j].direction \in ds}}

NoDuplicates(names) ==
    \A i, j \in 1..Len(names) : names[i] = names[j] => i = j

Elements(names) == {names[i] : i \in 1..Len(names)}

\* C12: for any adapter and any directions d1 and d2 (d1 = d2 included),
\* buffer_names(adapter, d1, d2) holds no name twice and holds exactly the
\* declared names whose direction is d1 or d2; buffer_names(d) holds exactly
\* the declared names whose direction is d.
C12_BufferNamesOfDirections ==
    /\ names_call.kind = "pair" =>
           /\ NoDuplicates(names_call.result)
           /\ Elements(names_call.result) =
                  DeclaredWithDirection({names_call.dir_1, names_call.dir_2})
    /\ names_call.kind = "one" =>
           /\ NoDuplicates(names_call.result)
           /\ Elements(names_call.result) = DeclaredWithDirection({names_call.dir_1})

C12_Witness ==
    /\ names_call.kind = "pair"
    /\ names_call.dir_1 = "out"
    /\ names_call.dir_2 = "out"
    /\ Len(buffer_details) = 3
    /\ Elements(names_call.result) = {"a", "b"}
    /\ Len(names_call.result) = 2

====
